---- MODULE Spec2Model ----
(***************************************************************************)
(* Model of package buildassets (buildmodel/buildassets/buildassets.go):   *)
(* BuildResultsDirectoryInfo.CreateSummary, getVersion and                 *)
(* BuildAssets.GetDockerRepoTargetBranch.                                  *)
(*                                                                         *)
(* A Go string is a sequence of one-character strings, so that the suffix, *)
(* prefix, split and comparison functions of package strings are computed  *)
(* on the bytes as the Go code computes them.                              *)
(***************************************************************************)
EXTENDS Integers, Sequences, FiniteSets, TLC

VARIABLES
    fs,          \* the filesystem: the two marker files and the artifacts directory
    info,        \* the BuildResultsDirectoryInfo receiver b of CreateSummary
    pc,          \* position of the running CreateSummary call
    goVersion,   \* local goVersion
    goRevision,  \* local goRevision
    archMap,     \* local archMap: identity key -> Arch
    entries,     \* local entries, the result of os.ReadDir
    i,           \* number of loop iterations started over entries
    io,          \* the I/O operations the running call has made, in order
    outcome,     \* what the running call returned: a manifest, an error, or a panic
    results,     \* the outcomes of the calls that have returned, in order
    assets,      \* the BuildAssets receiver of GetDockerRepoTargetBranch
    target       \* what GetDockerRepoTargetBranch returned (<<>> before the call)

vars == <<fs, info, pc, goVersion, goRevision, archMap, entries, i, io, outcome,
          results, assets, target>>

(***************************************************************************)
(* Bounds of the model.                                                    *)
(***************************************************************************)
\* largest number of entries in the artifacts directory
MaxEntries == 3
\* longest tail appended to a branch name drawn for GetDockerRepoTargetBranch
MaxTail == 2

(***************************************************************************)
(* Go strings.                                                             *)
(***************************************************************************)
\* the byte value of a character (ASCII)
Code(c) ==
    CASE c = "\t" -> 9   [] c = "\n" -> 10  [] c = "\r" -> 13  [] c = " " -> 32
      [] c = "-" -> 45   [] c = "." -> 46   [] c = "/" -> 47
      [] c = "0" -> 48   [] c = "1" -> 49   [] c = "2" -> 50   [] c = "3" -> 51
      [] c = "5" -> 53   [] c = "6" -> 54
      [] c = "a" -> 97   [] c = "b" -> 98   [] c = "c" -> 99   [] c = "d" -> 100
      [] c = "e" -> 101  [] c = "f" -> 102  [] c = "g" -> 103  [] c = "h" -> 104
      [] c = "i" -> 105  [] c = "l" -> 108  [] c = "m" -> 109  [] c = "n" -> 110
      [] c = "o" -> 111  [] c = "p" -> 112  [] c = "r" -> 114  [] c = "s" -> 115
      [] c = "t" -> 116  [] c = "u" -> 117  [] c = "w" -> 119  [] c = "x" -> 120
      [] c = "z" -> 122

\* Go's s < t on strings: bytewise lexicographic order
RECURSIVE StrLess(_, _)
StrLess(s, t) ==
    IF t = <<>> THEN FALSE
    ELSE IF s = <<>> THEN TRUE
    ELSE IF Code(Head(s)) # Code(Head(t)) THEN Code(Head(s)) < Code(Head(t))
    ELSE StrLess(Tail(s), Tail(t))

\* strings.HasSuffix
HasSuffix(s, suffix) ==
    /\ Len(s) >= Len(suffix)
    /\ SubSeq(s, Len(s) - Len(suffix) + 1, Len(s)) = suffix

\* strings.TrimSuffix
TrimSuffix(s, suffix) ==
    IF HasSuffix(s, suffix) THEN SubSeq(s, 1, Len(s) - Len(suffix)) ELSE s

\* strings.HasPrefix
HasPrefix(s, prefix) ==
    /\ Len(s) >= Len(prefix)
    /\ SubSeq(s, 1, Len(prefix)) = prefix

\* strings.TrimPrefix
TrimPrefix(s, prefix) ==
    IF HasPrefix(s, prefix) THEN SubSeq(s, Len(prefix) + 1, Len(s)) ELSE s

\* strings.LastIndex(s, c) for a one-byte separator: 0-based, -1 when absent
LastIndex(s, c) ==
    IF \E k \in 1..Len(s) : s[k] = c
    THEN (CHOOSE k \in 1..Len(s) :
              s[k] = c /\ \A j \in (k + 1)..Len(s) : s[j] # c) - 1
    ELSE -1

\* the Go slice expression s[from:], from 0-based
SliceFrom(s, from) == SubSeq(s, from + 1, Len(s))

\* strings.Split(s, c) for a one-byte separator: never empty, <<"">> for ""
RECURSIVE Split(_, _)
Split(s, c) ==
    IF \E k \in 1..Len(s) : s[k] = c
    THEN LET k == CHOOSE k \in 1..Len(s) :
                      s[k] = c /\ \A j \in 1..(k - 1) : s[j] # c
         IN  <<SubSeq(s, 1, k - 1)>> \o Split(SubSeq(s, k + 1, Len(s)), c)
    ELSE <<s>>

\* unicode.IsSpace on the ASCII characters of the model
IsSpace(c) == c \in {"\t", "\n", "\r", " "}

\* a Fields that does not split: the whole string as its one field
FieldsWhole(s) == IF s = <<>> THEN <<>> ELSE <<s>>

\* strings.Fields: the maximal runs of non-space characters, in order
RECURSIVE Fields(_)
Fields(s) ==
    IF s = <<>> THEN <<>>
    ELSE IF IsSpace(Head(s)) THEN Fields(Tail(s))
    ELSE LET n == IF \E k \in 1..Len(s) : IsSpace(s[k])
                  THEN (CHOOSE k \in 1..Len(s) :
                            IsSpace(s[k]) /\ \A j \in 1..(k - 1) : ~IsSpace(s[j])) - 1
                  ELSE Len(s)
         IN  <<SubSeq(s, 1, n)>> \o Fields(SubSeq(s, n + 1, Len(s)))

\* a scanner that hands back the whole file instead of its first line
ScanWholeFile(content) == content

\* bufio.Scanner with the default ScanLines split: one Scan, then Text.
\* An empty file yields no token (Text is ""); otherwise the token is the
\* text before the first newline, without one trailing carriage return.
ScanText(content) ==
    LET line == IF \E k \in 1..Len(content) : content[k] = "\n"
                THEN SubSeq(content, 1,
                            (CHOOSE k \in 1..Len(content) :
                                 content[k] = "\n"
                                 /\ \A j \in 1..(k - 1) : content[j] # "\n") - 1)
                ELSE content
    IN  IF line # <<>> /\ line[Len(line)] = "\r"
        THEN SubSeq(line, 1, Len(line) - 1)
        ELSE line

(***************************************************************************)
(* Package-level values and the types.                                     *)
(***************************************************************************)
archiveSuffixes == << <<".", "t", "a", "r", ".", "g", "z">>, <<".", "z", "i", "p">> >>
checksumSuffix == <<".", "s", "h", "a", "2", "5", "6">>

\* dockerversions.ArchEnv{} and dockerversions.Arch{}: the zero values
ZeroEnv == [GOOS |-> <<>>, GOARCH |-> <<>>]
ZeroArch == [URL |-> <<>>, SHA256 |-> <<>>, Env |-> ZeroEnv]

\* the strings CreateSummary and GetDockerRepoTargetBranch name
StrMain == <<"m", "a", "i", "n">>
StrOne == <<"1">>
StrGo == <<"g", "o">>
StrReleasePrefix ==
    <<"r", "e", "l", "e", "a", "s", "e", "-", "b", "r", "a", "n", "c", "h", ".">>
StrDevPrefix == <<"d", "e", "v", "/", "o", "f", "f", "i", "c", "i", "a", "l", "/">>
StrMicrosoftMain ==
    <<"m", "i", "c", "r", "o", "s", "o", "f", "t", "/", "m", "a", "i", "n">>

\* GetDockerRepoTargetBranch testing "main" as a prefix instead of for equality
GetDockerRepoTargetBranchPrefixMain(b) ==
    IF HasPrefix(b.Branch, StrMain) \/ HasPrefix(b.Branch, StrReleasePrefix)
    THEN StrMicrosoftMain
    ELSE IF HasPrefix(b.Branch, StrDevPrefix) THEN b.Branch
    ELSE <<>>

\* BuildAssets.GetDockerRepoTargetBranch
GetDockerRepoTargetBranch(b) ==
    IF b.Branch = StrMain \/ HasPrefix(b.Branch, StrReleasePrefix)
    THEN StrMicrosoftMain
    ELSE IF HasPrefix(b.Branch, StrDevPrefix) THEN b.Branch
    ELSE <<>>

(***************************************************************************)
(* The filesystem the calls read.                                          *)
(***************************************************************************)
File(name, content) ==
    [name |-> name, isDir |-> FALSE, readable |-> TRUE, content |-> content]

\* the entries an artifacts directory is drawn from
Universe ==
    { \* g.l-a.zip and its checksum file g.l-a.zip.sha256 ("ab  g\n")
      File(<<"g", ".", "l", "-", "a", ".", "z", "i", "p">>, <<"z">>),
      File(<<"g", ".", "l", "-", "a", ".", "z", "i", "p", ".", "s", "h", "a", "2", "5", "6">>,
           <<"a", "b", " ", " ", "g", "\n">>),
      \* g.w-x.tar.gz, an archive without checksum file
      File(<<"g", ".", "w", "-", "x", ".", "t", "a", "r", ".", "g", "z">>, <<"z">>),
      \* x.sha256 (" cd"), a checksum file without archive
      File(<<"x", ".", "s", "h", "a", "2", "5", "6">>, <<" ", "c", "d">>),
      \* e.sha256, a checksum file holding only white space
      File(<<"e", ".", "s", "h", "a", "2", "5", "6">>, <<" ", "\n">>),
      \* u.sha256, a checksum file that cannot be read
      [name |-> <<"u", ".", "s", "h", "a", "2", "5", "6">>, isDir |-> FALSE,
       readable |-> FALSE, content |-> <<>>],
      \* g.lx.zip: no dash after the last dot
      File(<<"g", ".", "l", "x", ".", "z", "i", "p">>, <<"z">>),
      \* g.l-a-b.zip: two dashes after the last dot
      File(<<"g", ".", "l", "-", "a", "-", "b", ".", "z", "i", "p">>, <<"z">>),
      \* n.txt: neither checksum file nor archive
      File(<<"n", ".", "t", "x", "t">>, <<"z">>),
      \* d.zip: a subdirectory
      [name |-> <<"d", ".", "z", "i", "p">>, isDir |-> TRUE,
       readable |-> FALSE, content |-> <<>>] }

\* a marker file: absent, failing to open, failing while read, or readable
Marker(kind, content) == [kind |-> kind, content |-> content]

VersionFiles ==
    { Marker("absent", <<>>), Marker("openErr", <<>>), Marker("readErr", <<>>),
      Marker("ok", <<"g", "o", "1", ".", "2", "\n", "z">>),
      Marker("ok", <<"1", ".", "2">>) }

RevisionFiles ==
    { Marker("absent", <<>>), Marker("openErr", <<>>),
      Marker("ok", <<"3", "\r", "\n", "5">>), Marker("ok", <<>>) }

\* the listings of at most MaxEntries distinct entries; os.ReadDir returns a
\* directory's entries sorted by filename, anyOrder lifts that
Listings(anyOrder) ==
    UNION { { l \in [1..n -> Universe] :
                \A j, k \in 1..n :
                    j < k => /\ l[j].name # l[k].name
                             /\ (anyOrder \/ StrLess(l[j].name, l[k].name)) } :
            n \in 0..MaxEntries }

\* the artifacts directories: one that cannot be listed, or a listing
Directories(anyOrder) ==
    {[listable |-> FALSE, listing |-> <<>>]}
        \cup {[listable |-> TRUE, listing |-> l] : l \in Listings(anyOrder)}

\* the BuildResultsDirectoryInfo values: ArtifactsDir is "" or a path
Infos ==
    { [ArtifactsDir |-> d, DestinationURL |-> <<"u">>, Branch |-> StrMain,
       BuildID |-> <<"1">>] : d \in {<<>>, <<"a">>} }

NoOutcome == [kind |-> "none", err |-> "", value |-> <<>>]

\* the locals of a call that has not started
Fresh ==
    /\ pc = "getVersion"
    /\ goVersion = <<>>
    /\ goRevision = <<>>
    /\ archMap = <<>>
    /\ entries = <<>>
    /\ i = 0
    /\ io = <<>>
    /\ outcome = NoOutcome

InitWith(anyOrder) ==
    /\ fs \in [version : VersionFiles, revision : RevisionFiles,
               dir : Directories(anyOrder)]
    /\ info \in Infos
    /\ Fresh
    /\ results = <<>>
    /\ assets = <<>>
    /\ target = <<>>

Init == InitWith(FALSE)

InitAnyOrder == InitWith(TRUE)

\* the tails of at most MaxTail characters appended to a branch name
Tails == UNION { [1..n -> {"x", "."}] : n \in 0..MaxTail }

\* the branch names GetDockerRepoTargetBranch is asked about
Branches ==
    { head \o base \o tail :
        head \in {<<>>, <<"x">>},
        base \in { <<>>, StrMain, StrMicrosoftMain, StrReleasePrefix,
                   SubSeq(StrReleasePrefix, 1, Len(StrReleasePrefix) - 1),
                   StrDevPrefix, SubSeq(StrDevPrefix, 1, Len(StrDevPrefix) - 1),
                   <<"f", "e", "a", "t", "u", "r", "e", "/", "x">> },
        tail \in Tails }

\* a BuildAssets value of any branch, and no CreateSummary call running
InitBranch ==
    /\ fs = [version |-> Marker("absent", <<>>), revision |-> Marker("absent", <<>>),
             dir |-> [listable |-> TRUE, listing |-> <<>>]]
    /\ info = [ArtifactsDir |-> <<>>, DestinationURL |-> <<"u">>, Branch |-> StrMain,
               BuildID |-> <<"1">>]
    /\ pc = "idle"
    /\ goVersion = <<>>
    /\ goRevision = <<>>
    /\ archMap = <<>>
    /\ entries = <<>>
    /\ i = 0
    /\ io = <<>>
    /\ outcome = NoOutcome
    /\ results = <<>>
    /\ assets \in { <<[Branch |-> br, BuildID |-> <<"1">>,
                        Version |-> <<"m", "a", "i", "n", "-", "1">>,
                        Arches |-> <<>>]>> : br \in Branches }
    /\ target = <<>>

(***************************************************************************)
(* getVersion and the steps of CreateSummary.                              *)
(***************************************************************************)
\* a getVersion that takes every failure to open for a missing file
getVersionAnyOpenError(file, defaultVersion) ==
    IF file.kind \in {"absent", "openErr"} THEN [err |-> FALSE, text |-> defaultVersion]
    ELSE IF file.kind = "readErr" THEN [err |-> TRUE, text |-> <<>>]
    ELSE [err |-> FALSE, text |-> ScanText(file.content)]

\* getVersion(path, defaultVersion) on the marker file at path: the returned
\* string and whether the returned error is non-nil
getVersion(file, defaultVersion) ==
    IF file.kind = "absent" THEN [err |-> FALSE, text |-> defaultVersion]
    ELSE IF file.kind = "openErr" THEN [err |-> TRUE, text |-> <<>>]
    ELSE IF file.kind = "readErr" THEN [err |-> TRUE, text |-> <<>>]
    ELSE [err |-> FALSE, text |-> ScanText(file.content)]

\* the closure getOrCreateArch: the map after the call; the returned pointer
\* is the map's entry for name
getOrCreateArch(m, name) ==
    IF name \in DOMAIN m THEN m ELSE (name :> ZeroArch) @@ m

\* a checksum file keyed by its own name, suffix kept
ChecksumKeyWhole(name) == name

\* the identity key of a checksum file
ChecksumKey(name) == TrimSuffix(name, checksumSuffix)

\* whether the loop over archiveSuffixes finds a suffix of name
IsArchive(name) ==
    \E k \in 1..Len(archiveSuffixes) : HasSuffix(name, archiveSuffixes[k])

\* the suffix at which the loop over archiveSuffixes breaks: the first match
MatchedSuffix(name) ==
    archiveSuffixes[CHOOSE k \in 1..Len(archiveSuffixes) :
                        /\ HasSuffix(name, archiveSuffixes[k])
                        /\ \A j \in 1..(k - 1) : ~HasSuffix(name, archiveSuffixes[j])]

\* an archive keyed by its name without the archive suffix
ArchiveKeyExtensionless(name) == TrimSuffix(name, MatchedSuffix(name))

\* the identity key of an archive file
ArchiveKey(name) == name

\* osArchParts for an archive file's name
OsArchParts(name) ==
    LET extensionless == TrimSuffix(name, MatchedSuffix(name))
        osArch == SliceFrom(extensionless, LastIndex(extensionless, ".") + 1)
    IN  Split(osArch, "-")

\* a less function with its operands swapped
LessURLSwapped(a, b) == StrLess(b.URL, a.URL)

\* the less function handed to sort.Slice
LessURL(a, b) == StrLess(a.URL, b.URL)

\* sort.Slice on a slice of fewer than 12 elements: insertion sort, each
\* element moved left while it is less than its predecessor
RECURSIVE InsertLast(_, _)
InsertLast(s, x) ==
    IF s = <<>> THEN <<x>>
    ELSE IF LessURL(x, s[Len(s)])
         THEN Append(InsertLast(SubSeq(s, 1, Len(s) - 1), x), s[Len(s)])
         ELSE Append(s, x)

RECURSIVE SortSlice(_)
SortSlice(s) ==
    IF s = <<>> THEN <<>>
    ELSE InsertLast(SortSlice(SubSeq(s, 1, Len(s) - 1)), s[Len(s)])

\* the orders in which ranging over a map with domain d yields its keys
RangeOrders(d) ==
    { o \in [1..Cardinality(d) -> d] :
        \A j, k \in 1..Cardinality(d) : j # k => o[j] # o[k] }

Op(op, name, ok) == [op |-> op, name |-> name, ok |-> ok]

Error(err) == [kind |-> "error", err |-> err, value |-> <<>>]
Panic == [kind |-> "panic", err |-> "index out of range", value |-> <<>>]
Ok(b) == [kind |-> "ok", err |-> "", value |-> <<b>>]

\* the call ends with outcome o
Return(o) ==
    /\ pc' = "returned"
    /\ outcome' = o
    /\ results' = Append(results, o)

\* goVersion, err := getVersion(path.Join(b.SourceDir, "VERSION"), "main")
GetVersion ==
    /\ pc = "getVersion"
    /\ LET r == getVersion(fs.version, StrMain) IN
        /\ io' = Append(io, Op("getVersion", <<"V">>, ~r.err))
        /\ IF r.err
           THEN Return(Error("version")) /\ UNCHANGED goVersion
           ELSE /\ goVersion' = r.text
                /\ pc' = "getRevision"
                /\ UNCHANGED <<outcome, results>>
    /\ UNCHANGED <<fs, info, goRevision, archMap, entries, i, assets, target>>

\* goRevision, err := getVersion(...); goVersion = strings.TrimPrefix(...)
GetRevision ==
    /\ pc = "getRevision"
    /\ LET r == getVersion(fs.revision, StrOne) IN
        /\ io' = Append(io, Op("getVersion", <<"R">>, ~r.err))
        /\ IF r.err
           THEN Return(Error("revision")) /\ UNCHANGED <<goVersion, goRevision>>
           ELSE /\ goRevision' = r.text
                /\ goVersion' = TrimPrefix(goVersion, StrGo)
                /\ pc' = "readDir"
                /\ UNCHANGED <<outcome, results>>
    /\ UNCHANGED <<fs, info, archMap, entries, i, assets, target>>

\* if b.ArtifactsDir != "" is false: the directory is not read
SkipArtifacts ==
    /\ pc = "readDir"
    /\ info.ArtifactsDir = <<>>
    /\ pc' = "flatten"
    /\ UNCHANGED <<fs, info, goVersion, goRevision, archMap, entries, i, io,
                   outcome, results, assets, target>>

\* entries, err := os.ReadDir(b.ArtifactsDir)
ReadDir ==
    /\ pc = "readDir"
    /\ info.ArtifactsDir # <<>>
    /\ io' = Append(io, Op("readDir", <<>>, fs.dir.listable))
    /\ IF ~fs.dir.listable
       THEN Return(Error("readDir")) /\ UNCHANGED entries
       ELSE /\ entries' = fs.dir.listing
            /\ pc' = IF fs.dir.listing = <<>> THEN "flatten" ELSE "loop"
            /\ UNCHANGED <<outcome, results>>
    /\ UNCHANGED <<fs, info, goVersion, goRevision, archMap, i, assets, target>>

\* the loop goes on to its next entry, or ends
Continue ==
    /\ pc' = IF i + 1 = Len(entries) THEN "flatten" ELSE "loop"
    /\ UNCHANGED <<outcome, results>>

\* if e.IsDir() { continue }
LoopDir ==
    /\ pc = "loop"
    /\ entries[i + 1].isDir
    /\ i' = i + 1
    /\ Continue
    /\ UNCHANGED <<fs, info, goVersion, goRevision, archMap, entries, io,
                   assets, target>>

\* if strings.HasSuffix(e.Name(), checksumSuffix) { ... continue }
LoopChecksum ==
    /\ pc = "loop"
    /\ LET e == entries[i + 1]
           key == ChecksumKey(e.name)
           m == getOrCreateArch(archMap, key)
           fields == Fields(e.content)
       IN  /\ ~e.isDir
           /\ HasSuffix(e.name, checksumSuffix)
           /\ i' = i + 1
           /\ io' = Append(io, Op("readFile", e.name, e.readable))
           /\ IF ~e.readable
              THEN archMap' = m /\ Return(Error("checksum"))
              ELSE IF Len(fields) = 0
              THEN archMap' = m /\ Return(Panic)
              ELSE /\ archMap' = [m EXCEPT ![key].SHA256 = fields[1]]
                   /\ Continue
    /\ UNCHANGED <<fs, info, goVersion, goRevision, entries, assets, target>>

\* for _, suffix := range archiveSuffixes { if strings.HasSuffix(...) { ... break } }
LoopArchive ==
    /\ pc = "loop"
    /\ LET e == entries[i + 1]
           parts == OsArchParts(e.name)
           key == ArchiveKey(e.name)
           m == getOrCreateArch(archMap, key)
       IN  /\ ~e.isDir
           /\ ~HasSuffix(e.name, checksumSuffix)
           /\ IsArchive(e.name)
           /\ i' = i + 1
           /\ IF Len(parts) < 2
              THEN Return(Panic) /\ UNCHANGED archMap
              ELSE /\ archMap' =
                        [m EXCEPT ![key].URL = info.DestinationURL \o <<"/">> \o e.name,
                                  ![key].Env = [GOOS |-> parts[1], GOARCH |-> parts[2]]]
                   /\ Continue
    /\ UNCHANGED <<fs, info, goVersion, goRevision, entries, io, assets, target>>

\* a file that is neither a checksum file nor an archive
LoopOther ==
    /\ pc = "loop"
    /\ LET e == entries[i + 1] IN
           /\ ~e.isDir
           /\ ~HasSuffix(e.name, checksumSuffix)
           /\ ~IsArchive(e.name)
    /\ i' = i + 1
    /\ Continue
    /\ UNCHANGED <<fs, info, goVersion, goRevision, archMap, entries, io,
                   assets, target>>

\* the map's values appended in the order the range yields them, sorted by
\* URL, and returned in the BuildAssets
Finish ==
    /\ pc = "flatten"
    /\ \E o \in RangeOrders(DOMAIN archMap) :
           LET arches == [k \in 1..Len(o) |-> archMap[o[k]]] IN
           Return(Ok([Branch |-> info.Branch, BuildID |-> info.BuildID,
                      Version |-> goVersion \o <<"-">> \o goRevision,
                      Arches |-> SortSlice(arches)]))
    /\ UNCHANGED <<fs, info, goVersion, goRevision, archMap, entries, i, io,
                   assets, target>>

\* the caller runs CreateSummary a second time, nothing on disk having changed
CallAgain ==
    /\ pc = "returned"
    /\ Len(results) < 2
    /\ pc' = "getVersion"
    /\ goVersion' = <<>>
    /\ goRevision' = <<>>
    /\ archMap' = <<>>
    /\ entries' = <<>>
    /\ i' = 0
    /\ io' = <<>>
    /\ outcome' = NoOutcome
    /\ UNCHANGED <<fs, info, results, assets, target>>

\* the caller asks a BuildAssets for its target branch
CallGetDockerRepoTargetBranch ==
    /\ assets # <<>>
    /\ target = <<>>
    /\ target' = <<GetDockerRepoTargetBranch(assets[1])>>
    /\ UNCHANGED <<fs, info, pc, goVersion, goRevision, archMap, entries, i, io,
                   outcome, results, assets>>

Next ==
    \/ GetVersion
    \/ GetRevision
    \/ SkipArtifacts
    \/ ReadDir
    \/ LoopDir
    \/ LoopChecksum
    \/ LoopArchive
    \/ LoopOther
    \/ Finish
    \/ CallAgain

\* the directory listed in filename order, as os.ReadDir lists it
Spec == Init /\ [][Next]_vars

\* the directory listed in any order
SpecAnyOrder == InitAnyOrder /\ [][Next]_vars

NextBranch == CallGetDockerRepoTargetBranch

\* GetDockerRepoTargetBranch called on BuildAssets values of any branch
SpecBranch == InitBranch /\ [][NextBranch]_vars

(***************************************************************************)
(* Properties. Their notions of suffix, prefix, first line, first token    *)
(* and order are stated on positions of the strings, not with the          *)
(* functions the code calls.                                               *)
(***************************************************************************)
EndsWith(s, suffix) == \E k \in 0..Len(s) : s = SubSeq(s, 1, k) \o suffix

StartsWith(s, prefix) == \E k \in 0..Len(s) : s = prefix \o SubSeq(s, k + 1, Len(s))

\* s <= t bytewise: s is a prefix of t, or they first differ at a position
\* where s holds the smaller byte
LexLeq(s, t) ==
    \/ /\ Len(s) <= Len(t)
       /\ \A k \in 1..Len(s) : s[k] = t[k]
    \/ \E k \in 1..Len(s) :
          /\ k <= Len(t)
          /\ \A j \in 1..(k - 1) : s[j] = t[j]
          /\ Code(s[k]) < Code(t[k])

\* line is the first line of content: what precedes the first line feed (all
\* of content when it has none), less a carriage return ending it
IsFirstLine(content, line) ==
    \E n \in 0..Len(content) :
        /\ \A k \in 1..n : content[k] # "\n"
        /\ n = Len(content) \/ content[n + 1] = "\n"
        /\ line = IF n > 0 /\ content[n] = "\r"
                  THEN SubSeq(content, 1, n - 1)
                  ELSE SubSeq(content, 1, n)

\* what a marker file resolves to: its first line, or the default when absent
Resolves(file, default, text) ==
    IF file.kind = "absent" THEN text = default
    ELSE file.kind = "ok" /\ IsFirstLine(file.content, text)

Returned == pc = "returned"

Manifest == outcome.value[1]

\* C6: the manifest's version is V-R, V the first line of VERSION without a
\* leading "go" ("main" when the file is absent), R the first line of
\* MICROSOFT_REVISION ("1" when absent); later lines are ignored
C6_Version ==
    (Returned /\ outcome.kind = "ok") =>
        \E v \in {SubSeq(fs.version.content, 1, n) : n \in 0..Len(fs.version.content)}
                  \cup {StrMain},
           r \in {SubSeq(fs.revision.content, 1, n) : n \in 0..Len(fs.revision.content)}
                  \cup {StrOne} :
            /\ Resolves(fs.version, StrMain, v)
            /\ Resolves(fs.revision, StrOne, r)
            /\ \/ /\ StartsWith(v, StrGo)
                  /\ StrGo \o Manifest.Version = v \o <<"-">> \o r
               \/ /\ ~StartsWith(v, StrGo)
                  /\ Manifest.Version = v \o <<"-">> \o r

\* a manifest "1.2-3" out of marker files of several lines, "go1.2\nz" and "3\r\n5"
C6_Witness ==
    /\ Returned /\ outcome.kind = "ok"
    /\ fs.version = Marker("ok", <<"g", "o", "1", ".", "2", "\n", "z">>)
    /\ fs.revision = Marker("ok", <<"3", "\r", "\n", "5">>)
    /\ Manifest.Version = <<"1", ".", "2", "-", "3">>

\* C3: the arches of a returned manifest are in ascending bytewise order of
\* url, the entries of empty url before all others
C3_SortedByURL ==
    (Returned /\ outcome.kind = "ok") =>
        /\ \A n \in 1..(Len(Manifest.Arches) - 1) :
              LexLeq(Manifest.Arches[n].URL, Manifest.Arches[n + 1].URL)
        /\ \A m, n \in 1..Len(Manifest.Arches) :
              (Manifest.Arches[m].URL = <<>> /\ Manifest.Arches[n].URL # <<>>) => m < n

\* a manifest of three entries, one of empty url and two of different urls
C3_Witness ==
    /\ Returned /\ outcome.kind = "ok"
    /\ Len(Manifest.Arches) = 3
    /\ Manifest.Arches[1].URL = <<>>
    /\ Manifest.Arches[2].URL # <<>>
    /\ Manifest.Arches[2].URL # Manifest.Arches[3].URL

Blank == {" ", "\t", "\n", "\r"}

\* token is the first white-space-delimited token of content
IsFirstToken(content, token) ==
    \E p \in 0..Len(content), q \in 1..Len(content) :
        /\ p < q
        /\ \A k \in 1..p : content[k] \in Blank
        /\ \A k \in (p + 1)..q : content[k] \notin Blank
        /\ q = Len(content) \/ content[q + 1] \in Blank
        /\ token = SubSeq(content, p + 1, q)

IsChecksumName(name) == EndsWith(name, checksumSuffix)

IsArchiveName(name) ==
    /\ ~IsChecksumName(name)
    /\ \E k \in 1..Len(archiveSuffixes) : EndsWith(name, archiveSuffixes[k])

\* the <<os, arch>> for which name is <base>.<os>-<arch><archive suffix>, os
\* and arch holding neither "." nor "-": one pair at most
Platforms(name) ==
    UNION { IF EndsWith(name, suffix)
            THEN LET end == Len(name) - Len(suffix) IN
                 { <<SubSeq(name, t[1] + 1, t[2] - 1), SubSeq(name, t[2] + 1, end)>> :
                     t \in { t \in (1..end) \X (1..end) :
                               /\ t[1] < t[2]
                               /\ name[t[1]] = "."
                               /\ name[t[2]] = "-"
                               /\ \A j \in (t[1] + 1)..end :
                                     j # t[2] => name[j] \notin {".", "-"} } }
            ELSE {} :
            suffix \in {archiveSuffixes[k] : k \in 1..Len(archiveSuffixes)} }

\* the files of the artifacts directory, as the filesystem holds them
Listing == fs.dir.listing

\* both marker files resolve, the artifacts directory is named and listable
NoHardErrorBeforeLoop ==
    /\ fs.version.kind \in {"absent", "ok"}
    /\ fs.revision.kind \in {"absent", "ok"}
    /\ info.ArtifactsDir # <<>>
    /\ fs.dir.listable

\* C1: in a returned manifest, an archive file F = <base>.<os>-<arch><suffix>
\* listed with its checksum file F.sha256 has exactly one entry of url
\* DestinationURL/F; its sha256 is the checksum file's first token and its
\* GOOS and GOARCH are <os> and <arch>, in whichever order the two are listed
C1_PairMerged ==
    (Returned /\ outcome.kind = "ok" /\ info.ArtifactsDir # <<>>) =>
        \A j, k \in 1..Len(Listing) :
            ( /\ Listing[k].name = Listing[j].name \o checksumSuffix
              /\ ~Listing[j].isDir
              /\ ~Listing[k].isDir
              /\ Platforms(Listing[j].name) # {} ) =>
                LET url == info.DestinationURL \o <<"/">> \o Listing[j].name
                    hits == {n \in 1..Len(Manifest.Arches) : Manifest.Arches[n].URL = url}
                IN  /\ Cardinality(hits) = 1
                    /\ \A n \in hits :
                          /\ IsFirstToken(Listing[k].content, Manifest.Arches[n].SHA256)
                          /\ <<Manifest.Arches[n].Env.GOOS, Manifest.Arches[n].Env.GOARCH>>
                                 \in Platforms(Listing[j].name)

\* g.l-a.zip.sha256 listed before g.l-a.zip, and the two merged in one entry
C1_Witness ==
    /\ Returned /\ outcome.kind = "ok"
    /\ Len(Listing) >= 2
    /\ Listing[1].name = Listing[2].name \o checksumSuffix
    /\ \E n \in 1..Len(Manifest.Arches) :
          Manifest.Arches[n] =
              [URL |-> <<"u", "/">> \o Listing[2].name, SHA256 |-> <<"a", "b">>,
               Env |-> [GOOS |-> <<"l">>, GOARCH |-> <<"a">>]]

\* C8: a directory holding one checksum file and nothing else gives, without
\* error, a manifest of one entry: empty url, empty GOOS and GOARCH, and the
\* file's first token as sha256
C8_ChecksumOnly ==
    ( /\ Returned
      /\ NoHardErrorBeforeLoop
      /\ Len(Listing) = 1
      /\ ~Listing[1].isDir
      /\ Listing[1].readable
      /\ IsChecksumName(Listing[1].name)
      /\ \E k \in 1..Len(Listing[1].content) : Listing[1].content[k] \notin Blank ) =>
        /\ outcome.kind = "ok"
        /\ Len(Manifest.Arches) = 1
        /\ Manifest.Arches[1].URL = <<>>
        /\ Manifest.Arches[1].Env = [GOOS |-> <<>>, GOARCH |-> <<>>]
        /\ IsFirstToken(Listing[1].content, Manifest.Arches[1].SHA256)

\* x.sha256 (" cd") alone in the directory: one entry, sha256 "cd"
C8_Witness ==
    /\ Returned /\ outcome.kind = "ok"
    /\ Len(Listing) = 1
    /\ Listing[1].name = <<"x">> \o checksumSuffix
    /\ Manifest.Arches = <<[URL |-> <<>>, SHA256 |-> <<"c", "d">>, Env |-> ZeroEnv]>>

\* the I/O operations of the running call that failed
FailedOps == {k \in 1..Len(io) : ~io[k].ok}

\* C9: a marker file that exists and cannot be opened or read, a directory
\* that cannot be listed and a checksum file that cannot be read each end the
\* call with an error and no manifest; the failed operation is the call's
\* last, no operation is made twice, and after a marker file's failure the
\* directory is not listed
C9_FailFast ==
    /\ FailedOps # {} =>
          /\ Returned
          /\ outcome.kind = "error"
          /\ outcome.value = <<>>
          /\ FailedOps = {Len(io)}
    /\ \A j, k \in 1..Len(io) : j < k => io[j] # io[k]
    /\ (\E k \in FailedOps : io[k].op = "getVersion") =>
          \A k \in 1..Len(io) : io[k].op # "readDir"
    /\ (fs.version.kind \in {"openErr", "readErr"} /\ pc # "getVersion") =>
          outcome.kind = "error" /\ Len(io) = 1
    /\ ( /\ fs.version.kind \in {"absent", "ok"}
         /\ fs.revision.kind \in {"openErr", "readErr"}
         /\ pc \notin {"getVersion", "getRevision"} ) =>
          outcome.kind = "error" /\ Len(io) = 2
    /\ ( /\ fs.version.kind \in {"absent", "ok"}
         /\ fs.revision.kind \in {"absent", "ok"}
         /\ info.ArtifactsDir # <<>>
         /\ ~fs.dir.listable
         /\ pc \notin {"getVersion", "getRevision", "readDir"} ) =>
          outcome.kind = "error" /\ Len(io) = 3
    /\ \A k \in 1..i :
          (~entries[k].isDir /\ IsChecksumName(entries[k].name) /\ ~entries[k].readable) =>
              k = i /\ outcome.kind = "error" /\ outcome.value = <<>>

\* the unreadable u.sha256 met after an entry was put in the map: an error,
\* and nothing of the map returned
C9_Witness ==
    /\ Returned /\ outcome.kind = "error" /\ outcome.value = <<>>
    /\ i >= 2
    /\ ~entries[i].readable
    /\ \E key \in DOMAIN archMap : archMap[key].URL # <<>>

\* the identity key of a checksum or archive file's name
IdentityKey(name) ==
    IF IsChecksumName(name)
    THEN CHOOSE key \in {SubSeq(name, 1, n) : n \in 0..Len(name)} :
             name = key \o checksumSuffix
    ELSE name

\* the identity keys of the checksum and archive files among the first n entries
KeysSeen(n) ==
    { IdentityKey(entries[k].name) :
        k \in { j \in 1..n : /\ ~entries[j].isDir
                              /\ \/ IsChecksumName(entries[j].name)
                                 \/ IsArchiveName(entries[j].name) } }

\* C10: as long as no entry has failed, the keys of the artifact index are the
\* identity keys of the checksum and archive files met so far, whatever their
\* order; a subdirectory or a file of neither kind fails nothing; the
\* returned arches are as many as the identity keys in the directory
C10_OneEntryPerKey ==
    /\ outcome.kind \notin {"error", "panic"} => DOMAIN archMap = KeysSeen(i)
    /\ (outcome.kind \in {"error", "panic"} /\ i >= 1) =>
          /\ ~entries[i].isDir
          /\ IsChecksumName(entries[i].name) \/ IsArchiveName(entries[i].name)
    /\ (Returned /\ outcome.kind = "ok") =>
          Len(Manifest.Arches) = Cardinality(KeysSeen(Len(entries)))

\* three entries met, a checksum file before its archive and a file of
\* neither kind or a subdirectory: one key in the index
C10_Witness ==
    /\ pc = "flatten"
    /\ i = 3
    /\ Cardinality(DOMAIN archMap) = 1
    /\ \E j, k \in 1..3 : j < k /\ entries[j].name = entries[k].name \o checksumSuffix
    /\ \E k \in 1..3 :
          entries[k].isDir
          \/ (~IsChecksumName(entries[k].name) /\ ~IsArchiveName(entries[k].name))

\* C2: two calls over the same unchanged directories, with the same
\* arguments, return identical manifests, the order of arches included
C2_Deterministic == Len(results) = 2 => results[1] = results[2]

\* C4: a readable checksum file without any white-space-delimited token ends
\* the call with a reported error, not with an indexing fault
C4_ExplicitError ==
    ( /\ Returned
      /\ i >= 1
      /\ ~entries[i].isDir
      /\ IsChecksumName(entries[i].name)
      /\ entries[i].readable
      /\ \A k \in 1..Len(entries[i].content) : entries[i].content[k] \in Blank ) =>
        outcome.kind = "error"

\* the number of "-" after the last "." of an archive's name less its suffix
Dashes(name) ==
    LET suffix == CHOOSE suffix \in {archiveSuffixes[k] : k \in 1..Len(archiveSuffixes)} :
                      EndsWith(name, suffix)
        end == Len(name) - Len(suffix)
    IN  Cardinality({ d \in 1..end : /\ name[d] = "-"
                                      /\ \A j \in d..end : name[j] # "." })

\* C5: an archive file whose OS/architecture component is not exactly two
\* "-"-separated parts ends the call with a reported error: no indexing
\* fault, and no entry made of its first two parts
C5_ExplicitError ==
    ( /\ Returned
      /\ \E k \in 1..i : /\ ~entries[k].isDir
                          /\ IsArchiveName(entries[k].name)
                          /\ Dashes(entries[k].name) # 1 ) =>
        outcome.kind = "error"

\* C7: GetDockerRepoTargetBranch returns "microsoft/main" for "main" and for
\* a branch starting with "release-branch.", the branch itself when it starts
\* with "dev/official/", and "" for any other branch
C7_TargetBranch ==
    target # <<>> =>
        LET branch == assets[1].Branch IN
        IF branch = StrMain \/ StartsWith(branch, StrReleasePrefix)
        THEN target[1] = StrMicrosoftMain
        ELSE IF StartsWith(branch, StrDevPrefix)
        THEN target[1] = branch
        ELSE target[1] = <<>>

\* the branch dev/official/x. was asked about and came back unchanged
C7_Witness ==
    /\ target # <<>>
    /\ assets[1].Branch = StrDevPrefix \o <<"x", ".">>
    /\ target[1] = assets[1].Branch
====
